---- MODULE Spec2Model ----
(***************************************************************************)
(* Request handlers of the Handlips API (src/src/app.js): soundboards,     *)
(* history/messages, feedback and reports, over the relational tables and  *)
(* the blob store they use.  Each handler is one action: it reads the      *)
(* request, performs its awaited calls in program order and leaves the     *)
(* response in res and the calls it made, in order, in calls.              *)
(*                                                                         *)
(* Strings that the code takes apart or builds (file names, URLs, query    *)
(* parameters) are sequences of one-character strings.  A JavaScript value *)
(* is a record tagged by its type.                                         *)
(*                                                                         *)
(* A lookup (findOne, findByPk) answers from the table.  A call that       *)
(* writes a table or reaches a cloud service (synthesizeSpeech, file.save, *)
(* file.delete, create, destroy, INSERT) either takes effect or rejects,   *)
(* and a rejection lands in the handler's catch block.  In                 *)
(* SpecSoundboard, SpecHistory, SpecFeedback and SpecReport a request is   *)
(* handled to its response before the next one starts; in                  *)
(* SpecHistoryConcurrent the history handlers are suspended at each await  *)
(* and their database statements interleave.                               *)
(***************************************************************************)
EXTENDS Integers, Sequences, FiniteSets, Bags

VARIABLES
    soundboards,  \* rows of table Soundboard
    blobs,        \* objects of the storage bucket: [key, size]
    histories,    \* rows of table HISTORY
    messages,     \* rows of table MESSAGE
    feedback,     \* rows of table feedback, in insertion order
    reports,      \* rows of table Report
    req,          \* the request handled last
    res,          \* the response sent for it
    calls,        \* the awaited calls the handler made for it, in order
    inflight      \* the bag of history requests suspended at an await

vars == <<soundboards, blobs, histories, messages, feedback, reports, req, res, calls, inflight>>

----------------------------------------------------------------------------
(* Bounds of the model *)

MaxSoundboards == 2
MaxBlobs == 2
MaxMessages == 2
MaxFeedback == 2
MaxReports == 25
MaxInflight == 2

----------------------------------------------------------------------------
(* JavaScript values *)

Undefined == [t |-> "undefined"]
Str(s) == [t |-> "string", s |-> s]
Num(n, d) == [t |-> "number", num |-> n, den |-> d]
Bool(b) == [t |-> "boolean", b |-> b]
Bytes(n) == [t |-> "buffer", len |-> n]
NaN == [t |-> "NaN"]
Infinity == [t |-> "Infinity"]

\* !x is FALSE exactly for these
Truthy(x) ==
    CASE x.t = "undefined" -> FALSE
      [] x.t = "string" -> x.s # <<>>
      [] x.t = "number" -> x.num # 0
      [] x.t = "boolean" -> x.b
      [] x.t = "NaN" -> FALSE
      [] OTHER -> TRUE

Digit(n) == <<"0", "1", "2", "3", "4", "5", "6", "7", "8", "9">>[n + 1]

IsDigit(c) == \E n \in 0..9 : Digit(n) = c

RECURSIVE Digits(_)
\* String(n) for an integer n >= 0
Digits(n) == IF n < 10 THEN <<Digit(n)>> ELSE Digits(n \div 10) \o <<Digit(n % 10)>>

RECURSIVE DigitsValue(_)
\* the integer a string of decimal digits denotes
DigitsValue(s) ==
    IF s = <<>> THEN 0
    ELSE 10 * DigitsValue(SubSeq(s, 1, Len(s) - 1)) + (CHOOSE n \in 0..9 : Digit(n) = s[Len(s)])

\* Number(s) for a string of decimal digits or a string that is no numeral
StringToNumber(s) ==
    IF \A i \in 1..Len(s) : IsDigit(s[i]) THEN Num(DigitsValue(s), 1) ELSE NaN

\* the number an operand of an arithmetic or relational operator is converted to
ToNumber(x) ==
    CASE x.t = "string" -> StringToNumber(x.s)
      [] x.t = "boolean" -> Num(IF x.b THEN 1 ELSE 0, 1)
      [] x.t = "undefined" -> NaN
      [] OTHER -> x

\* a < b
JsLess(a, b) ==
    LET x == ToNumber(a)
        y == ToNumber(b)
    IN /\ x.t = "number" /\ y.t = "number"
       /\ x.num * y.den < y.num * x.den

\* a - b and a * b
JsSub(a, b) ==
    LET x == ToNumber(a)
        y == ToNumber(b)
    IN IF x.t = "number" /\ y.t = "number"
       THEN Num(x.num * y.den - y.num * x.den, x.den * y.den) ELSE NaN

JsMul(a, b) ==
    LET x == ToNumber(a)
        y == ToNumber(b)
    IN IF x.t = "number" /\ y.t = "number"
       THEN Num(x.num * y.num, x.den * y.den) ELSE NaN

\* Math.ceil(count / limit) for an integer count >= 0
CeilDiv(count, limit) ==
    LET y == ToNumber(limit)
    IN IF y.t # "number" THEN NaN
       ELSE IF y.num = 0 THEN (IF count = 0 THEN NaN ELSE Infinity)
       ELSE IF y.num > 0 THEN Num(-((-(count * y.den)) \div y.num), 1)
       ELSE Num(-((count * y.den) \div (-y.num)), 1)

\* parseInt(x): the integer at the head of String(x), or NaN
ParseInt(x) ==
    CASE x.t = "string" ->
           LET k == CHOOSE n \in 0..Len(x.s) :
                        /\ \A i \in 1..n : IsDigit(x.s[i])
                        /\ n < Len(x.s) => ~IsDigit(x.s[n + 1])
           IN IF k = 0 THEN NaN ELSE Num(DigitsValue(SubSeq(x.s, 1, k)), 1)
      [] x.t = "number" ->
           IF x.num >= 0 THEN Num(x.num \div x.den, 1) ELSE Num(-((-x.num) \div x.den), 1)
      [] OTHER -> NaN

\* uuidv4(): the n-th identifier, over the alphabet of a UUID (hex digits and "-")
Uuid(n) == <<"a", "-">> \o Digits(n)

\* s.split("/").pop()
SplitPop(s) ==
    LET idx == {i \in 1..Len(s) : s[i] = "/"}
    IN IF idx = {} THEN s
       ELSE LET last == CHOOSE i \in idx : \A j \in idx : j <= i
            IN SubSeq(s, last + 1, Len(s))

----------------------------------------------------------------------------
(* Soundboards *)

UrlPrefix ==
    <<"h", "t", "t", "p", "s", ":", "/", "/", "s", "t", "o", "r", "a", "g", "e", ".",
      "g", "o", "o", "g", "l", "e", "a", "p", "i", "s", ".", "c", "o", "m", "/">>

\* process.env.GCP_BUCKET_NAME
BucketName == <<"b", "k", "t">>

Mp3Suffix == <<".", "m", "p", "3">>

Titles == {Undefined, Str(<<>>), Str(<<"T">>)}
Texts == {Undefined, Str(<<>>), Str(<<"h", "i">>)}
Emails == {Undefined, Str(<<>>), Str(<<"a", "@", "x">>)}

\* what ttsClient.synthesizeSpeech answers: it rejects, or resolves with a
\* response whose audioContent holds no bytes, or audio
TtsOutcomes == {"error", "empty", "audio"}

\* response.audioContent
AudioContent(tts) == IF tts = "empty" THEN Bytes(0) ELSE Bytes(3)

\* the identifiers that live rows and objects carry
UsedIds ==
    {b.key : b \in blobs}
        \cup {s.id : s \in soundboards} \cup {s.fileName : s \in soundboards}
        \cup {h.id : h \in histories} \cup {m.message_id : m \in messages}
        \cup {r.id : r \in reports}

\* uuidv4(): an identifier no live row or object carries, alone or in a file
\* name; skip is how many the same handler drew before
FreshUuid(skip) ==
    LET used(n) == Uuid(n) \in UsedIds \/ Uuid(n) \o Mp3Suffix \in UsedIds
        free == {n \in 0..(Cardinality(UsedIds) + 1) : ~used(n)}
        least(S) == CHOOSE n \in S : \A m \in S : n <= m
    IN IF skip = 0 THEN Uuid(least(free)) ELSE Uuid(least(free \ {least(free)}))

RequiredMissingMut(title, text, email) == ~Truthy(title) \/ ~Truthy(text)

\* !title || !text || !email
RequiredMissing(title, text, email) == ~Truthy(title) \/ ~Truthy(text) \/ ~Truthy(email)

PublicUrlMut(filename) == UrlPrefix \o BucketName \o <<"/">> \o filename \o <<"/">>

\* `https://storage.googleapis.com/${process.env.GCP_BUCKET_NAME}/${filename}`
PublicUrl(filename) == UrlPrefix \o BucketName \o <<"/">> \o filename

\* file.save(buffer): the object filename now holds buffer
SaveBlob(store, filename, buffer) ==
    {b \in store : b.key # filename} \cup {[key |-> filename, size |-> buffer.len]}

Call(name, outcome) == [call |-> name, outcome |-> outcome]

\* POST /soundboards
PostSoundboards ==
    \E title \in Titles, text \in Texts, email \in Emails :
        /\ req' = [op |-> "POST /soundboards", title |-> title, text |-> text, email |-> email]
        /\ IF RequiredMissing(title, text, email)
           THEN /\ res' = [status |-> 400]
                /\ calls' = <<>>
                /\ UNCHANGED <<soundboards, blobs>>
           ELSE \E tts \in TtsOutcomes :
                /\ Cardinality(blobs) < MaxBlobs
                /\ Cardinality(soundboards) < MaxSoundboards
                /\ IF tts = "error"
                   THEN \* generateSpeech throws
                        /\ res' = [status |-> 500]
                        /\ calls' = <<Call("synthesizeSpeech", "error")>>
                        /\ UNCHANGED <<soundboards, blobs>>
                   ELSE LET audioBuffer == AudioContent(tts)
                            fileName == FreshUuid(0) \o Mp3Suffix
                        IN \/ \* uploadToGCS throws
                              /\ res' = [status |-> 500]
                              /\ calls' = <<Call("synthesizeSpeech", tts), Call("file.save", "error")>>
                              /\ UNCHANGED <<soundboards, blobs>>
                           \/ LET audioUrl == PublicUrl(fileName)
                                  soundboard == [id |-> FreshUuid(1), title |-> title, text |-> text,
                                                 audioUrl |-> audioUrl, fileName |-> fileName,
                                                 createdByEmail |-> email]
                              IN /\ blobs' = SaveBlob(blobs, fileName, audioBuffer)
                                 /\ \/ \* Soundboard.create throws
                                       /\ res' = [status |-> 500]
                                       /\ calls' = <<Call("synthesizeSpeech", tts), Call("file.save", "ok"),
                                                     Call("Soundboard.create", "error")>>
                                       /\ UNCHANGED soundboards
                                    \/ /\ soundboards' = soundboards \cup {soundboard}
                                       /\ res' = [status |-> 201, data |-> soundboard]
                                       /\ calls' = <<Call("synthesizeSpeech", tts), Call("file.save", "ok"),
                                                     Call("Soundboard.create", "ok")>>
        /\ UNCHANGED <<histories, messages, feedback, reports, inflight>>

\* Soundboard.findByPk(id): the row, or none
FindByPkAny(id) == soundboards

FindByPk(id) == {s \in soundboards : s.id = id}

\* the ids requests name: those of the rows, and one that no row carries
DeleteIds == {s.id : s \in soundboards} \cup {Uuid(0)}

ContinuesAfterDeleteMut(deleted) == deleted

\* try { await file.delete() } catch (error) { console.error(...) }: the
\* handler goes on to the row whether or not the object was deleted
ContinuesAfterDelete(deleted) == TRUE

\* DELETE /soundboards/:id
DeleteSoundboard ==
    \E id \in DeleteIds :
        /\ req' = [op |-> "DELETE /soundboards/:id", id |-> id]
        /\ IF FindByPk(id) = {}
           THEN /\ res' = [status |-> 404]
                /\ calls' = <<>>
                /\ UNCHANGED <<soundboards, blobs>>
           ELSE LET soundboard == CHOOSE s \in FindByPk(id) : TRUE
                    filename == SplitPop(soundboard.audioUrl)
                IN \E deleted \in BOOLEAN :
                   \* file.delete() resolves only when it removed the object
                   /\ deleted => \E b \in blobs : b.key = filename
                   /\ blobs' = IF deleted THEN {b \in blobs : b.key # filename} ELSE blobs
                   /\ IF ~ContinuesAfterDelete(deleted)
                      THEN /\ res' = [status |-> 500]
                           /\ calls' = <<Call("file.delete", "error")>>
                           /\ UNCHANGED soundboards
                      ELSE \/ \* soundboard.destroy throws
                              /\ res' = [status |-> 500]
                              /\ calls' = <<Call("file.delete", IF deleted THEN "ok" ELSE "error"),
                                            Call("soundboard.destroy", "error")>>
                              /\ UNCHANGED soundboards
                           \/ /\ soundboards' = soundboards \ {soundboard}
                              /\ res' = [status |-> 200]
                              /\ calls' = <<Call("file.delete", IF deleted THEN "ok" ELSE "error"),
                                            Call("soundboard.destroy", "ok")>>
        /\ UNCHANGED <<histories, messages, feedback, reports, inflight>>

----------------------------------------------------------------------------
(* History and messages *)

HistoryEmails == {<<"a">>, <<"b">>}
BodyEmails == {Undefined, Str(<<>>)} \cup {Str(e) : e \in HistoryEmails}
BodyTitles == {Undefined, Str(<<>>), Str(<<"T">>)}
BodyMessages == {Undefined, Str(<<>>), Str(<<"m">>)}
BodyFlags == {Undefined, Bool(TRUE), Bool(FALSE)}

\* the instants new Date() reads; no handler modelled here reads created_at back
Times == {0}

CallN(name, outcome, n) == [call |-> name, outcome |-> outcome, n |-> n]

FindHistoryNone(email) == {}

FindHistoryAny(email) == histories

\* History.findOne({ where: { email } }): the row, or none
FindHistory(email) == {h \in histories : h.email = email}

DestroyMessagesAll(rows, email) == {}

\* Message.destroy({ where: { email } })
DestroyMessages(rows, email) == {m \in rows : m.email # email}

\* History.destroy({ where: { email } })
DestroyHistory(rows, email) == {h \in rows : h.email # email}

\* POST /history/email
PostHistoryEmail ==
    \E email \in BodyEmails, title \in BodyTitles :
        /\ req' = [op |-> "POST /history/email", email |-> email, title |-> title]
        /\ IF ~Truthy(email) \/ ~Truthy(title)
           THEN /\ res' = [status |-> 400, message |-> "Email dan title harus diisi"]
                /\ calls' = <<>>
                /\ UNCHANGED histories
           ELSE IF FindHistory(email.s) # {}
           THEN /\ res' = [status |-> 400, message |-> "Email sudah terdaftar"]
                /\ calls' = <<Call("History.findOne", "found")>>
                /\ UNCHANGED histories
           ELSE /\ LET id == FreshUuid(0)
                   IN \/ \* History.create throws
                         /\ res' = [status |-> 500]
                         /\ calls' = <<Call("History.findOne", "none"), Call("History.create", "error")>>
                         /\ UNCHANGED histories
                      \/ \* email is the table's primary key: the insert succeeds
                         \* only when no row carries it
                         /\ \A h \in histories : h.email # email.s
                         /\ histories' = histories \cup {[email |-> email.s, id |-> id, title |-> title.s]}
                         /\ res' = [status |-> 201, data |-> [email |-> email.s, id |-> id, title |-> title.s]]
                         /\ calls' = <<Call("History.findOne", "none"), Call("History.create", "ok")>>
        /\ UNCHANGED <<soundboards, blobs, messages, feedback, reports, inflight>>

\* POST /history/:email
PostHistoryMessage ==
    \E email \in HistoryEmails, message \in BodyMessages, is_speech_to_text \in BodyFlags :
        /\ req' = [op |-> "POST /history/:email", email |-> email, message |-> message,
                   is_speech_to_text |-> is_speech_to_text]
        /\ IF ~Truthy(message) \/ is_speech_to_text = Undefined
           THEN /\ res' = [status |-> 400]
                /\ calls' = <<>>
                /\ UNCHANGED messages
           ELSE IF FindHistory(email) = {}
           THEN /\ res' = [status |-> 404]
                /\ calls' = <<Call("History.findOne", "none")>>
                /\ UNCHANGED messages
           ELSE /\ Cardinality(messages) < MaxMessages
                /\ \E created_at \in Times :
                   \* the clock does not run backwards
                   /\ \A m \in messages : m.created_at <= created_at
                   /\ LET row == [message_id |-> FreshUuid(0), email |-> email, message |-> message.s,
                               created_at |-> created_at, is_speech_to_text |-> is_speech_to_text.b]
                      IN \/ \* Message.create throws
                            /\ res' = [status |-> 500]
                            /\ calls' = <<Call("History.findOne", "found"), Call("Message.create", "error")>>
                            /\ UNCHANGED messages
                         \/ /\ messages' = messages \cup {row}
                            /\ res' = [status |-> 201, data |-> row]
                            /\ calls' = <<Call("History.findOne", "found"), Call("Message.create", "ok")>>
        /\ UNCHANGED <<soundboards, blobs, histories, feedback, reports, inflight>>

\* DELETE /history/:email
DeleteHistory ==
    \E email \in HistoryEmails :
        /\ req' = [op |-> "DELETE /history/:email", email |-> email]
        /\ IF FindHistory(email) = {}
           THEN /\ res' = [status |-> 404]
                /\ calls' = <<Call("History.findOne", "none")>>
                /\ UNCHANGED <<histories, messages>>
           ELSE \/ \* Message.destroy throws
                   /\ res' = [status |-> 500]
                   /\ calls' = <<Call("History.findOne", "found"), Call("Message.destroy", "error")>>
                   /\ UNCHANGED <<histories, messages>>
                \/ LET n == Cardinality(messages) - Cardinality(DestroyMessages(messages, email))
                   IN /\ messages' = DestroyMessages(messages, email)
                      /\ \/ \* History.destroy throws
                            /\ res' = [status |-> 500]
                            /\ calls' = <<Call("History.findOne", "found"),
                                          CallN("Message.destroy", "ok", n),
                                          Call("History.destroy", "error")>>
                            /\ UNCHANGED histories
                         \/ /\ histories' = DestroyHistory(histories, email)
                            /\ res' = [status |-> 200]
                            /\ calls' = <<Call("History.findOne", "found"),
                                          CallN("Message.destroy", "ok", n),
                                          Call("History.destroy", "ok")>>
        /\ UNCHANGED <<soundboards, blobs, feedback, reports, inflight>>

----------------------------------------------------------------------------
(* Feedback *)

Comments == {Undefined, Str(<<>>), Str(<<"c">>)}

\* the ratings a JSON body carries: none, the integers -1..5, and 0.5, 2.5, 4.5
Ratings == {Undefined} \cup {Num(n, 1) : n \in -1..5} \cup {Num(1, 2), Num(5, 2), Num(9, 2)}

RatingOutOfRangeMut(rating) == JsLess(rating, Num(1, 1)) \/ JsLess(Num(5, 1), rating)

\* rating < 1 || rating > 4
RatingOutOfRange(rating) == JsLess(rating, Num(1, 1)) \/ JsLess(Num(4, 1), rating)

\* POST /feedback
PostFeedback ==
    \E comment \in Comments, rating \in Ratings :
        /\ req' = [op |-> "POST /feedback", comment |-> comment, rating |-> rating]
        /\ IF ~Truthy(comment) \/ ~Truthy(rating)
           THEN /\ res' = [status |-> 400, message |-> "Rating harus diisi"]
                /\ calls' = <<>>
                /\ UNCHANGED feedback
           ELSE IF RatingOutOfRange(rating)
           THEN /\ res' = [status |-> 400, message |-> "Rating harus antara 1-4"]
                /\ calls' = <<>>
                /\ UNCHANGED feedback
           ELSE /\ Len(feedback) < MaxFeedback
                /\ \/ LET id == Len(feedback) + 1
                      IN /\ feedback' = Append(feedback, [id |-> id, comment |-> comment.s, rating |-> rating])
                         /\ res' = [status |-> 201, data |-> [id |-> id, comment |-> comment, rating |-> rating]]
                         /\ calls' = <<Call("INSERT INTO feedback", "ok")>>
                   \/ \* the INSERT throws
                      /\ res' = [status |-> 500]
                      /\ calls' = <<Call("INSERT INTO feedback", "error")>>
                      /\ UNCHANGED feedback
        /\ UNCHANGED <<soundboards, blobs, histories, messages, reports, inflight>>

----------------------------------------------------------------------------
(* Reports *)

DefaultPage == 1
DefaultLimit == 10

\* the page and limit a query string carries: none, a numeral, or no numeral
QueryPages == {Undefined, Str(<<"0">>), Str(<<"1">>), Str(<<"2">>), Str(<<"3">>), Str(<<"x">>)}
QueryLimits == QueryPages \cup {Str(<<"1", "0">>)}

\* POST /report
PostReport ==
    \E comment \in Comments :
        /\ req' = [op |-> "POST /report", comment |-> comment]
        /\ IF ~Truthy(comment)
           THEN /\ res' = [status |-> 400]
                /\ calls' = <<>>
                /\ UNCHANGED reports
           ELSE /\ Cardinality(reports) < MaxReports
                /\ \/ \* Report.create throws
                      /\ res' = [status |-> 500]
                      /\ calls' = <<Call("Report.create", "error")>>
                      /\ UNCHANGED reports
                   \/ \* rows are created one after another: createdAt rises with each
                      LET report == [id |-> FreshUuid(0), comment |-> comment.s,
                                     createdAt |-> Cardinality(reports) + 1]
                      IN /\ reports' = reports \cup {report}
                         /\ res' = [status |-> 201, data |-> report]
                         /\ calls' = <<Call("Report.create", "ok")>>
        /\ UNCHANGED <<soundboards, blobs, histories, messages, feedback, inflight>>

\* order: [["createdAt", "DESC"]]
OrderByCreatedAtDesc(rows) ==
    [i \in 1..Cardinality(rows) |->
        CHOOSE r \in rows : Cardinality({q \in rows : q.createdAt > r.createdAt}) = i - 1]

\* the rows LIMIT offset, limit leaves of an ordered result
LimitOffset(ordered, limit, offset) ==
    SubSeq(ordered, offset + 1, IF offset + limit < Len(ordered) THEN offset + limit ELSE Len(ordered))

PageOffsetMut(page, limit) == JsMul(page, limit)

\* (page - 1) * limit
PageOffset(page, limit) == JsMul(JsSub(page, Num(1, 1)), limit)

\* Math.ceil(count / limit)
TotalPages(count, limit) == CeilDiv(count, limit)

\* GET /report
GetReport ==
    \E queryPage \in QueryPages, queryLimit \in QueryLimits :
        LET page == IF queryPage = Undefined THEN Num(DefaultPage, 1) ELSE queryPage
            limit == IF queryLimit = Undefined THEN Num(DefaultLimit, 1) ELSE queryLimit
            offset == PageOffset(page, limit)
            lim == ParseInt(limit)
            off == ParseInt(offset)
            count == Cardinality(reports)
            ordered == OrderByCreatedAtDesc(reports)
            answer(rows) == [status |-> 200, total |-> count, currentPage |-> ParseInt(page),
                             totalPages |-> TotalPages(count, limit), data |-> rows]
        IN /\ req' = [op |-> "GET /report", page |-> queryPage, limit |-> queryLimit]
           /\ IF lim.t # "number" \/ off.t # "number" \/ off.num < 0
              THEN \* LIMIT NaN or a negative offset: the database rejects the statement
                   /\ res' = [status |-> 500]
                   /\ calls' = <<Call("Report.findAndCountAll", "error")>>
              ELSE IF lim.num = 0
              THEN \* a limit of 0: the statement carries LIMIT 0, or no LIMIT at all
                   /\ res' \in {answer(<<>>), answer(LimitOffset(ordered, count, off.num))}
                   /\ calls' = <<Call("Report.findAndCountAll", "ok")>>
              ELSE /\ res' = answer(LimitOffset(ordered, lim.num, off.num))
                   /\ calls' = <<Call("Report.findAndCountAll", "ok")>>
           /\ UNCHANGED <<soundboards, blobs, histories, messages, feedback, reports, inflight>>

----------------------------------------------------------------------------
(* History and messages, with the handlers suspended at their awaits *)

(* A handler runs from one await to the next without interruption; the      *)
(* database executes one statement at a time.  A step below is one          *)
(* statement together with the handler code that follows it up to the next  *)
(* statement or the response.  A request between two statements waits in   *)
(* inflight with the statement it will issue next.                          *)

\* the server takes a request while fewer than MaxInflight are suspended
Accepting == BagCardinality(inflight) < MaxInflight

\* the suspended requests
Suspended == BagToSet(inflight)

\* request waits for the statement next to resolve
Suspend(request, next) ==
    inflight' = inflight (+) SetToBag({[request |-> request, next |-> next]})

\* the suspended request r goes on as r2, suspended at its next await
Resume(r, r2) == inflight' = (inflight (-) SetToBag({r})) (+) SetToBag({r2})

\* the response of the suspended request r
Respond(r, response, made) ==
    /\ req' = r.request
    /\ res' = response
    /\ calls' = made
    /\ inflight' = inflight (-) SetToBag({r})

\* POST /history/email up to the await of History.create
StartPostHistoryEmail ==
    \E email \in BodyEmails, title \in BodyTitles :
        LET request == [op |-> "POST /history/email", email |-> email, title |-> title]
        IN /\ Accepting
           /\ IF ~Truthy(email) \/ ~Truthy(title)
              THEN /\ req' = request
                   /\ res' = [status |-> 400, message |-> "Email dan title harus diisi"]
                   /\ calls' = <<>>
                   /\ UNCHANGED inflight
              ELSE IF FindHistory(email.s) # {}
              THEN /\ req' = request
                   /\ res' = [status |-> 400, message |-> "Email sudah terdaftar"]
                   /\ calls' = <<Call("History.findOne", "found")>>
                   /\ UNCHANGED inflight
              ELSE /\ Suspend(request, "History.create")
                   /\ UNCHANGED <<req, res, calls>>
           /\ UNCHANGED <<soundboards, blobs, histories, messages, feedback, reports>>

\* POST /history/email from History.create on
FinishPostHistoryEmail ==
    \E r \in Suspended :
        /\ r.next = "History.create"
        /\ LET email == r.request.email.s
               title == r.request.title.s
               id == FreshUuid(0)
           IN \/ \* History.create throws
                 /\ Respond(r, [status |-> 500],
                            <<Call("History.findOne", "none"), Call("History.create", "error")>>)
                 /\ UNCHANGED histories
              \/ \* email is the table's primary key: the insert succeeds
                 \* only when no row carries it
                 /\ \A h \in histories : h.email # email
                 /\ histories' = histories \cup {[email |-> email, id |-> id, title |-> title]}
                 /\ Respond(r, [status |-> 201, data |-> [email |-> email, id |-> id, title |-> title]],
                            <<Call("History.findOne", "none"), Call("History.create", "ok")>>)
        /\ UNCHANGED <<soundboards, blobs, messages, feedback, reports>>

\* the Message.create statements requests in flight will still issue
PendingMessages ==
    LET waiting == {r \in Suspended : r.next = "Message.create"}
        RECURSIVE count(_)
        count(S) == IF S = {} THEN 0
                    ELSE LET r == CHOOSE x \in S : TRUE IN CopiesIn(r, inflight) + count(S \ {r})
    IN count(waiting)

\* POST /history/:email up to the await of Message.create
StartPostHistoryMessage ==
    \E email \in HistoryEmails, message \in BodyMessages, is_speech_to_text \in BodyFlags :
        LET request == [op |-> "POST /history/:email", email |-> email, message |-> message,
                        is_speech_to_text |-> is_speech_to_text]
        IN /\ Accepting
           /\ IF ~Truthy(message) \/ is_speech_to_text = Undefined
              THEN /\ req' = request
                   /\ res' = [status |-> 400]
                   /\ calls' = <<>>
                   /\ UNCHANGED inflight
              ELSE IF FindHistory(email) = {}
              THEN /\ req' = request
                   /\ res' = [status |-> 404]
                   /\ calls' = <<Call("History.findOne", "none")>>
                   /\ UNCHANGED inflight
              ELSE /\ Cardinality(messages) + PendingMessages < MaxMessages
                   /\ Suspend(request, "Message.create")
                   /\ UNCHANGED <<req, res, calls>>
           /\ UNCHANGED <<soundboards, blobs, histories, messages, feedback, reports>>

\* POST /history/:email from Message.create on.  The statement names no
\* History row.  sequelize.sync() creates only the tables that are missing,
\* so whether MESSAGE.email carries an enforced foreign key is the
\* deployment's: a table that enforces it rejects the insert once the
\* History row is gone (the statement throws), a table that does not
\* inserts whatever the table of histories holds by now.
FinishPostHistoryMessage ==
    \E r \in Suspended, created_at \in Times :
        /\ r.next = "Message.create"
        /\ \A m \in messages : m.created_at <= created_at
        /\ LET row == [message_id |-> FreshUuid(0), email |-> r.request.email,
                       message |-> r.request.message.s, created_at |-> created_at,
                       is_speech_to_text |-> r.request.is_speech_to_text.b]
           IN \/ \* Message.create throws
                 /\ Respond(r, [status |-> 500],
                            <<Call("History.findOne", "found"), Call("Message.create", "error")>>)
                 /\ UNCHANGED messages
              \/ /\ messages' = messages \cup {row}
                 /\ Respond(r, [status |-> 201, data |-> row],
                            <<Call("History.findOne", "found"), Call("Message.create", "ok")>>)
        /\ UNCHANGED <<soundboards, blobs, histories, feedback, reports>>

\* DELETE /history/:email up to the await of Message.destroy
StartDeleteHistory ==
    \E email \in HistoryEmails :
        LET request == [op |-> "DELETE /history/:email", email |-> email]
        IN /\ Accepting
           /\ IF FindHistory(email) = {}
              THEN /\ req' = request
                   /\ res' = [status |-> 404]
                   /\ calls' = <<Call("History.findOne", "none")>>
                   /\ UNCHANGED inflight
              ELSE /\ Suspend(request, "Message.destroy")
                   /\ UNCHANGED <<req, res, calls>>
           /\ UNCHANGED <<soundboards, blobs, histories, messages, feedback, reports>>

\* DELETE /history/:email from Message.destroy to the await of History.destroy
DeleteHistoryMessages ==
    \E r \in Suspended :
        /\ r.next = "Message.destroy"
        /\ LET email == r.request.email
               n == Cardinality(messages) - Cardinality(DestroyMessages(messages, email))
           IN \/ \* Message.destroy throws
                 /\ Respond(r, [status |-> 500],
                            <<Call("History.findOne", "found"), Call("Message.destroy", "error")>>)
                 /\ UNCHANGED messages
              \/ /\ messages' = DestroyMessages(messages, email)
                 /\ Resume(r, [request |-> r.request, next |-> "History.destroy", n |-> n])
                 /\ UNCHANGED <<req, res, calls>>
        /\ UNCHANGED <<soundboards, blobs, histories, feedback, reports>>

\* DELETE /history/:email from History.destroy on
FinishDeleteHistory ==
    \E r \in Suspended :
        /\ r.next = "History.destroy"
        /\ LET email == r.request.email
               made(outcome) == <<Call("History.findOne", "found"),
                                  CallN("Message.destroy", "ok", r.n),
                                  Call("History.destroy", outcome)>>
           IN \/ \* History.destroy throws (as it does where an enforced foreign
                 \* key finds a Message row of this email)
                 /\ Respond(r, [status |-> 500], made("error"))
                 /\ UNCHANGED histories
              \/ /\ histories' = DestroyHistory(histories, email)
                 /\ Respond(r, [status |-> 200], made("ok"))
        /\ UNCHANGED <<soundboards, blobs, messages, feedback, reports>>

----------------------------------------------------------------------------

Init ==
    /\ soundboards = {}
    /\ blobs = {}
    /\ histories = {}
    /\ messages = {}
    /\ feedback = <<>>
    /\ reports = {}
    /\ req = [op |-> "none"]
    /\ res = [status |-> 0]
    /\ calls = <<>>
    /\ inflight = EmptyBag

NextSoundboard == PostSoundboards \/ DeleteSoundboard

SpecSoundboard == Init /\ [][NextSoundboard]_vars

NextHistory == PostHistoryEmail \/ PostHistoryMessage \/ DeleteHistory

SpecHistory == Init /\ [][NextHistory]_vars

NextHistoryConcurrent ==
    \/ StartPostHistoryEmail \/ FinishPostHistoryEmail
    \/ StartPostHistoryMessage \/ FinishPostHistoryMessage
    \/ StartDeleteHistory \/ DeleteHistoryMessages \/ FinishDeleteHistory

SpecHistoryConcurrent == Init /\ [][NextHistoryConcurrent]_vars

NextFeedback == PostFeedback

SpecFeedback == Init /\ [][NextFeedback]_vars

NextReport == PostReport \/ GetReport

SpecReport == Init /\ [][NextReport]_vars

----------------------------------------------------------------------------
(* Properties of the soundboard handlers *)

\* a body field that is missing or empty
MissingOrEmpty(x) == x = Undefined \/ x = Str(<<>>)

\* seg is the part of s after its last "/" (all of s when it has none)
IsLastSegment(seg, s) ==
    \E k \in 0..Len(s) :
        /\ seg = SubSeq(s, k + 1, Len(s))
        /\ k > 0 => s[k] = "/"
        /\ \A i \in (k + 1)..Len(s) : s[i] # "/"

\* C1: a POST /soundboards whose title, text or email is missing or empty is
\* answered 400, makes no synthesis, upload or insert call, and leaves the
\* blob store and the Soundboard table as they were.
C1_InvalidCreateRejected ==
    [][(/\ req'.op = "POST /soundboards"
        /\ MissingOrEmpty(req'.title) \/ MissingOrEmpty(req'.text) \/ MissingOrEmpty(req'.email))
       => (/\ res'.status = 400
           /\ calls' = <<>>
           /\ blobs' = blobs
           /\ soundboards' = soundboards)]_vars

C1_Witness ==
    /\ req.op = "POST /soundboards"
    /\ ~MissingOrEmpty(req.title) /\ ~MissingOrEmpty(req.text) /\ MissingOrEmpty(req.email)
    /\ res.status = 400
    /\ soundboards # {}
    /\ blobs # {}

\* C2: in every reachable state each Soundboard row's audioUrl ends, after its
\* last "/", in the row's fileName.
C2_UrlEndsInFileName ==
    \A s \in soundboards : IsLastSegment(s.fileName, s.audioUrl)

C2_Witness ==
    /\ req.op = "DELETE /soundboards/:id"
    /\ res.status = 200
    /\ soundboards # {}

\* C5: a DELETE /soundboards/:id whose id matches no row is answered 404,
\* attempts no blob delete, and leaves the blob store and the table unchanged.
C5_DeleteUnknownId ==
    [][(/\ req'.op = "DELETE /soundboards/:id"
        /\ \A s \in soundboards : s.id # req'.id)
       => (/\ res'.status = 404
           /\ \A i \in 1..Len(calls') : calls'[i].call # "file.delete"
           /\ blobs' = blobs
           /\ soundboards' = soundboards)]_vars

C5_Witness ==
    /\ req.op = "DELETE /soundboards/:id"
    /\ res.status = 404
    /\ soundboards # {}
    /\ blobs # {}

\* C6: a DELETE /soundboards/:id whose id matches a row attempts the blob
\* delete first and the row delete second, whatever the blob delete's
\* outcome; when the row delete succeeds the row is gone and the answer is 200.
C6_RowDeleteAlwaysProceeds ==
    [][(/\ req'.op = "DELETE /soundboards/:id"
        /\ \E s \in soundboards : s.id = req'.id)
       => (/\ Len(calls') = 2
           /\ calls'[1].call = "file.delete"
           /\ calls'[2].call = "soundboard.destroy"
           /\ calls'[2].outcome = "ok"
                => (/\ res'.status = 200
                    /\ \A s \in soundboards' : s.id # req'.id))]_vars

C6_Witness ==
    /\ req.op = "DELETE /soundboards/:id"
    /\ Len(calls) = 2
    /\ calls[1] = Call("file.delete", "error")
    /\ calls[2] = Call("soundboard.destroy", "ok")
    /\ res.status = 200
    /\ \A s \in soundboards : s.id # req.id

\* C10: a valid POST /soundboards calls synthesize, upload and insert in that
\* order; a step that fails (synthesis rejects or returns no content, upload
\* fails, insert fails) ends the handler with 500 and no later call; a row is
\* persisted (201) only if synthesis produced content and the upload succeeded.
C10_CreateStopsAtFirstFailure ==
    (/\ req.op = "POST /soundboards"
     /\ ~MissingOrEmpty(req.title) /\ ~MissingOrEmpty(req.text) /\ ~MissingOrEmpty(req.email))
    => LET order == <<"synthesizeSpeech", "file.save", "Soundboard.create">>
           failed(c) == c.outcome \in {"error", "empty"}
       IN /\ Len(calls) \in 1..3
          /\ \A i \in 1..Len(calls) : calls[i].call = order[i]
          /\ \A i \in 1..Len(calls) : failed(calls[i]) => (i = Len(calls) /\ res.status = 500)
          /\ res.status = 201 => (Len(calls) = 3 /\ \A i \in 1..3 : ~failed(calls[i]))
          /\ res.status \in {201, 500}

----------------------------------------------------------------------------
(* Properties of the history handlers *)

HistoryRowsOf(rows, email) == {h \in rows : h.email = email}

\* C3: a POST /history/email (email and title present) for an email that
\* already has a History row is answered 400 without an insert, and the table
\* then holds exactly one row for that email; in every reachable state there
\* is at most one History row per email.
C3_SecondCreateRejected ==
    /\ [](\A h1, h2 \in histories : h1.email = h2.email => h1 = h2)
    /\ [][(/\ req'.op = "POST /history/email"
           /\ ~MissingOrEmpty(req'.email) /\ ~MissingOrEmpty(req'.title)
           /\ HistoryRowsOf(histories, req'.email.s) # {})
          => (/\ res'.status = 400
              /\ \A i \in 1..Len(calls') : calls'[i].call # "History.create"
              /\ histories' = histories
              /\ Cardinality(HistoryRowsOf(histories', req'.email.s)) = 1)]_vars

C3_Witness ==
    /\ req.op = "POST /history/email"
    /\ ~MissingOrEmpty(req.email) /\ ~MissingOrEmpty(req.title)
    /\ res.status = 400
    /\ Cardinality(HistoryRowsOf(histories, req.email.s)) = 1
    /\ Cardinality(histories) = 2

\* C4: a POST /history/:email with a valid body for an email that has no
\* History row is answered 404 and leaves the Message table unchanged.
C4_AppendWithoutHistory ==
    [][(/\ req'.op = "POST /history/:email"
        /\ ~MissingOrEmpty(req'.message) /\ req'.is_speech_to_text # Undefined
        /\ HistoryRowsOf(histories, req'.email) = {})
       => (/\ res'.status = 404
           /\ \A i \in 1..Len(calls') : calls'[i].call # "Message.create"
           /\ messages' = messages)]_vars

C4_Witness ==
    /\ req.op = "POST /history/:email"
    /\ ~MissingOrEmpty(req.message) /\ req.is_speech_to_text # Undefined
    /\ HistoryRowsOf(histories, req.email) = {}
    /\ res.status = 404
    /\ histories # {}
    /\ messages # {}

\* C7: a DELETE /history/:email for an email without a History row is answered
\* 404 and deletes nothing; otherwise the Message rows of the email are
\* deleted first and the History row second, after a 200 neither a History row
\* nor a Message row of the email remains, and the rows of other emails are
\* never touched.
C7_DeleteHistoryWithMessages ==
    [][(req'.op = "DELETE /history/:email")
       => LET e == req'.email
              destroys == SelectSeq(calls', LAMBDA c : c.call \in {"Message.destroy", "History.destroy"})
          IN /\ HistoryRowsOf(histories, e) = {}
                  => (res'.status = 404 /\ destroys = <<>>
                      /\ histories' = histories /\ messages' = messages)
             /\ HistoryRowsOf(histories, e) # {}
                  => (/\ res'.status # 404
                      /\ Len(destroys) \in 1..2
                      /\ destroys[1].call = "Message.destroy"
                      /\ Len(destroys) = 2 => destroys[2].call = "History.destroy")
             /\ res'.status = 200
                  => (/\ HistoryRowsOf(histories', e) = {}
                      /\ \A m \in messages' : m.email # e)
             /\ {h \in histories' : h.email # e} = {h \in histories : h.email # e}
             /\ {m \in messages' : m.email # e} = {m \in messages : m.email # e}]_vars

C7_Witness ==
    /\ req.op = "DELETE /history/:email"
    /\ res.status = 200
    /\ Len(calls) = 3
    /\ calls[2].call = "Message.destroy" /\ calls[2].n > 0
    /\ histories # {}
    /\ messages # {}

----------------------------------------------------------------------------
(* Properties of the feedback and report handlers *)

\* an integer rating in 1..4
IsRatingOneToFour(x) == x.t = "number" /\ x.den = 1 /\ x.num \in 1..4

\* C8: POST /feedback answers 201, with one row inserted, only when comment is
\* present and rating is an integer in 1..4; any other rating (0, 5, a
\* non-integer, none) or a missing comment is answered 400 with no insert; so
\* every feedback row carries an integer rating in 1..4.
C8_OnlyIntegerRatingsAccepted ==
    /\ req.op = "POST /feedback"
         => /\ res.status = 201
                 => (/\ ~MissingOrEmpty(req.comment)
                     /\ IsRatingOneToFour(req.rating)
                     /\ calls = <<Call("INSERT INTO feedback", "ok")>>)
            /\ (MissingOrEmpty(req.comment) \/ ~IsRatingOneToFour(req.rating))
                 => (res.status = 400 /\ calls = <<>>)
    /\ \A i \in 1..Len(feedback) : IsRatingOneToFour(feedback[i].rating)

\* the number a page or limit parameter stands for: its default when omitted,
\* else the integer whose decimal numeral it is
IsNumeral(q) == q = Undefined \/ \E n \in 0..99 : Digits(n) = q.s
NumeralValue(q, default) == IF q = Undefined THEN default ELSE CHOOSE n \in 0..99 : Digits(n) = q.s

\* C9: GET /report with page p >= 1 and limit L >= 1 (1 and 10 when omitted)
\* over N reports answers total = N, totalPages = ceil(N / L) and, as data, the
\* rows at positions (p-1)*L .. min(p*L, N)-1 of the newest-first order.
C9_ReportPagination ==
    (/\ req.op = "GET /report"
     /\ IsNumeral(req.page) /\ IsNumeral(req.limit)
     /\ NumeralValue(req.page, 1) >= 1 /\ NumeralValue(req.limit, 10) >= 1)
    => LET p == NumeralValue(req.page, 1)
           L == NumeralValue(req.limit, 10)
           N == Cardinality(reports)
           first == (p - 1) * L
           last == (IF p * L < N THEN p * L ELSE N) - 1
           newer(r) == Cardinality({q \in reports : q.createdAt > r.createdAt})
       IN /\ res.status = 200
          /\ res.total = N
          /\ res.totalPages = Num((N + L - 1) \div L, 1)
          /\ Len(res.data) = (IF last >= first THEN last - first + 1 ELSE 0)
          /\ Len(res.data) <= L
          /\ \A i \in 1..Len(res.data) :
                res.data[i] \in reports /\ newer(res.data[i]) = first + i - 1

C9_Witness ==
    /\ req.op = "GET /report"
    /\ req.page = Str(<<"1">>) /\ req.limit = Str(<<"1", "0">>)
    /\ Cardinality(reports) = 25
    /\ Len(res.data) = 10
    /\ res.totalPages = Num(3, 1)


----------------------------------------------------------------------------
(* Properties of the interleaved history handlers *)

\* no request is between two of its statements
Quiescent == inflight = EmptyBag

\* the Message rows whose email no History row carries
OrphanMessages == {m \in messages : \A h \in histories : h.email # m.email}

====
